---- MODULE Spec2Model ----
(***************************************************************************)
(* Model of group-server.js: the participant registry, the update patch,   *)
(* the ranking comparator, and the persistence / recovery of the           *)
(* scoreboard file.                                                        *)
(*                                                                         *)
(* JavaScript values are tagged records [k |-> kind, ...]:                 *)
(*   undefined, null, finite number (n), Infinity (JSON 1e999), NaN,       *)
(*   string (s, a sequence of one-character strings), opaque object.       *)
(* A JSON object with fields of its own (a participant row, a stats        *)
(* patch) is a record of such values with no "k" field; a key the object   *)
(* does not have is held as undefined, which is how the code tests for it  *)
(* (patch.x !== undefined) and how JSON.stringify treats it (dropped).     *)
(***************************************************************************)
EXTENDS Integers, Sequences, FiniteSets, TLC

\* ------------------------------------------------------------------ bounds
MaxRequests == 2

\* ------------------------------------------------------- program constants
NameLimit == 28

\* ------------------------------------------------------------- JS values
Undef == [k |-> "undefined"]
JNull == [k |-> "null"]
JInf == [k |-> "infinity"]
NaN == [k |-> "nan"]
JObj == [k |-> "object"]
JNum(n) == [k |-> "number", n |-> n]
JStr(s) == [k |-> "string", s |-> s]
EmptyStr == JStr(<<>>)

\* A JSON object with own fields, as opposed to a tagged primitive.
IsRecord(v) == "k" \notin DOMAIN v

\* obj.f for a JSON value: undefined for a missing field and for a
\* primitive other than null (reading a field of null throws; the callers
\* test for null first).
Get(obj, f) == IF IsRecord(obj) /\ f \in DOMAIN obj THEN obj[f] ELSE Undef

\* ------------------------------------------------------------- strings
WhiteSpace == {" "}

RECURSIVE TrimLeft(_)
TrimLeft(s) ==
  IF s # <<>> /\ Head(s) \in WhiteSpace THEN TrimLeft(Tail(s)) ELSE s

RECURSIVE TrimRight(_)
TrimRight(s) ==
  IF s # <<>> /\ s[Len(s)] \in WhiteSpace
  THEN TrimRight(SubSeq(s, 1, Len(s) - 1))
  ELSE s

\* String.prototype.trim
Trim(s) == TrimRight(TrimLeft(s))

\* String.prototype.slice(0, n)
Slice(s, n) == IF Len(s) <= n THEN s ELSE SubSeq(s, 1, n)

Digits == <<"0", "1", "2", "3", "4", "5", "6", "7", "8", "9">>
DigitSet == {Digits[i] : i \in 1..10}
DigitVal(c) == (CHOOSE i \in 1..10 : Digits[i] = c) - 1

RECURSIVE NatToStr(_)
NatToStr(n) ==
  IF n < 10 THEN <<Digits[n + 1]>>
  ELSE NatToStr(n \div 10) \o <<Digits[(n % 10) + 1]>>

NumToStr(n) == IF n < 0 THEN <<"-">> \o NatToStr(0 - n) ELSE NatToStr(n)

RECURSIVE DigitsToNat(_)
DigitsToNat(s) ==
  IF s = <<>> THEN 0
  ELSE 10 * DigitsToNat(SubSeq(s, 1, Len(s) - 1)) + DigitVal(s[Len(s)])

AllDigits(s) == s # <<>> /\ \A i \in 1..Len(s) : s[i] \in DigitSet

\* Number(<string>): blank is 0, a decimal integer is its value, any
\* other text is NaN.
StrToNumber(s) ==
  LET t == Trim(s) IN
  IF t = <<>> THEN JNum(0)
  ELSE IF AllDigits(t) THEN JNum(DigitsToNat(t))
  ELSE IF Head(t) = "-" /\ AllDigits(Tail(t)) THEN JNum(0 - DigitsToNat(Tail(t)))
  ELSE NaN

\* Number(value)
ToNumber(v) ==
  CASE v.k = "number" -> v
    [] v.k = "infinity" -> JInf
    [] v.k = "null" -> JNum(0)
    [] v.k = "string" -> StrToNumber(v.s)
    [] OTHER -> NaN

\* String(value)
ToStr(v) ==
  CASE v.k = "string" -> v.s
    [] v.k = "number" -> NumToStr(v.n)
    [] v.k = "undefined" -> <<"u", "n", "d", "e", "f", "i", "n", "e", "d">>
    [] v.k = "null" -> <<"n", "u", "l", "l">>
    [] v.k = "infinity" -> <<"I", "n", "f", "i", "n", "i", "t", "y">>
    [] v.k = "nan" -> <<"N", "a", "N">>
    [] OTHER -> <<"[", "o", "b", "j", "e", "c", "t", " ", "O", "b", "j", "e", "c", "t", "]">>

\* JavaScript truthiness
Truthy(v) ==
  CASE v.k = "undefined" -> FALSE
    [] v.k = "null" -> FALSE
    [] v.k = "nan" -> FALSE
    [] v.k = "number" -> v.n # 0
    [] v.k = "string" -> v.s # <<>>
    [] OTHER -> TRUE

\* value || ''
OrEmpty(v) == IF Truthy(v) THEN v ELSE EmptyStr

\* cleanName without the trim.
cleanNameNoTrim(value) == Slice(ToStr(OrEmpty(value)), NameLimit)

\* cleanName(value): String(value || '').trim().slice(0, 28)
cleanName(value) == Slice(Trim(ToStr(OrEmpty(value))), NameLimit)

\* safeNum(value), with the default fallback 0
safeNum(value) ==
  LET n == ToNumber(value) IN IF n.k = "number" THEN n.n ELSE 0

\* Math.max(0, n)
Max0(n) == IF n < 0 THEN 0 ELSE n

\* ------------------------------------------------------ collation (sort)
\* Collation order of the characters that occur in names: String
\* .localeCompare(_, 'he') puts white space and punctuation before digits
\* and digits before letters.
Collation ==
  <<" ", "_", "-", "[", "]", "0", "1", "2", "3", "4", "5", "6", "7", "8", "9",
    "a", "b", "c", "d", "e", "f", "i", "I", "j", "l", "n", "N", "o", "O",
    "p", "r", "s", "t", "T", "u", "x", "y">>
CharRank(c) == CHOOSE i \in 1..Len(Collation) : Collation[i] = c

RECURSIVE localeCompare(_, _)
localeCompare(a, b) ==
  IF a = <<>> THEN (IF b = <<>> THEN 0 ELSE 0 - 1)
  ELSE IF b = <<>> THEN 1
  ELSE IF CharRank(Head(a)) < CharRank(Head(b)) THEN 0 - 1
  ELSE IF CharRank(Head(a)) > CharRank(Head(b)) THEN 1
  ELSE localeCompare(Tail(a), Tail(b))

\* ---------------------------------------------------- participant rows
Counters ==
  {"totalMistakes", "roundMistakes", "completedRounds", "totalFound",
   "lastRoundMs", "bestRoundMs"}
Fields ==
  {"id", "name", "currentMiniGame", "currentMiniGameIndex", "updatedAt"}
    \cup Counters

\* An object with no enumerable property of its own: {...Object}, {}.
NoFields == [f \in Fields |-> Undef]

\* nowIso() at clock reading t, shortened to "T<t>".
nowIso(t) == JStr(<<"T">> \o NatToStr(t))

\* scoreSort with the mistakes tie-break reversed.
scoreSortMistakesDesc(a, b) ==
  LET roundsDiff == safeNum(b.completedRounds) - safeNum(a.completedRounds)
      mistakesDiff == safeNum(b.totalMistakes) - safeNum(a.totalMistakes)
  IN IF roundsDiff # 0 THEN roundsDiff
     ELSE IF mistakesDiff # 0 THEN mistakesDiff
     ELSE localeCompare(ToStr(OrEmpty(a.name)), ToStr(OrEmpty(b.name)))

\* scoreSort without the name tie-break.
scoreSortNoName(a, b) ==
  LET roundsDiff == safeNum(b.completedRounds) - safeNum(a.completedRounds)
      mistakesDiff == safeNum(a.totalMistakes) - safeNum(b.totalMistakes)
  IN IF roundsDiff # 0 THEN roundsDiff ELSE mistakesDiff

\* scoreSort(a, b)
scoreSort(a, b) ==
  LET roundsDiff == safeNum(b.completedRounds) - safeNum(a.completedRounds)
      mistakesDiff == safeNum(a.totalMistakes) - safeNum(b.totalMistakes)
  IN IF roundsDiff # 0 THEN roundsDiff
     ELSE IF mistakesDiff # 0 THEN mistakesDiff
     ELSE localeCompare(ToStr(OrEmpty(a.name)), ToStr(OrEmpty(b.name)))

\* One step of a stable sort: x goes after every element that does not
\* compare greater than it.
RECURSIVE InsertRanked(_, _)
InsertRanked(sorted, x) ==
  IF sorted = <<>> THEN <<x>>
  ELSE IF scoreSort(sorted[Len(sorted)], x) > 0
       THEN InsertRanked(SubSeq(sorted, 1, Len(sorted) - 1), x)
              \o <<sorted[Len(sorted)]>>
       ELSE Append(sorted, x)

\* Array.prototype.sort(scoreSort), which is stable.
RECURSIVE SortRows(_)
SortRows(rows) ==
  IF Len(rows) = 0 THEN <<>>
  ELSE InsertRanked(SortRows(SubSeq(rows, 1, Len(rows) - 1)), rows[Len(rows)])

\* Object.values(parts): the own rows in property order, which is the
\* order of insertion for keys that are not canonical array indices (no
\* key of this model is one).
ObjectValues(parts, order) == [i \in 1..Len(order) |-> parts[order[i]]]

\* participantsList() for a registry (parts, order).
participantsList(parts, order) == SortRows(ObjectValues(parts, order))

\* --------------------------------------------------- the registry object
ProtoKey == <<"_", "_", "p", "r", "o", "t", "o", "_", "_">>
ConstructorKey == <<"c", "o", "n", "s", "t", "r", "u", "c", "t", "o", "r">>
\* Names every plain object inherits from Object.prototype.
InheritedKeys == {ConstructorKey}

EmptyRegistry == [x \in {} |-> NoFields]

\* state.participants[id]: an own row, else what the prototype chain
\* gives (the object last installed as prototype, a built-in of
\* Object.prototype), else undefined.  Built-ins have no enumerable
\* property, so their spread is NoFields.
Lookup(parts, pr, id) ==
  IF id \in DOMAIN parts THEN parts[id]
  ELSE IF id = ProtoKey THEN pr
  ELSE IF id \in InheritedKeys THEN NoFields
  ELSE Undef

\* state.participants[id] = row: "__proto__" is the accessor of
\* Object.prototype and installs row as the prototype; any other key
\* becomes (or stays) an own property.
StoreParts(parts, id, row) ==
  IF id = ProtoKey THEN parts
  ELSE [x \in DOMAIN parts \cup {id} |-> IF x = id THEN row ELSE parts[x]]
StoreOrder(parts, order, id) ==
  IF id = ProtoKey \/ id \in DOMAIN parts THEN order ELSE Append(order, id)
StoreProto(pr, id, row) == IF id = ProtoKey THEN row ELSE pr

\* normalizeStatsPatch without the presence test on the counters: a
\* replace, not a merge.
normalizeStatsPatchReplace(existing, patch, t) ==
  LET name == cleanName(Get(patch, "name")) IN
  [f \in Fields |->
     CASE f = "name" -> IF name # <<>> THEN JStr(name) ELSE existing[f]
       [] f = "currentMiniGame" ->
            IF Get(patch, f) # Undef
            THEN JStr(ToStr(OrEmpty(Get(patch, f))))
            ELSE existing[f]
       [] f = "currentMiniGameIndex" ->
            IF Get(patch, f) # Undef
            THEN JNum(safeNum(Get(patch, f)))
            ELSE existing[f]
       [] f \in Counters -> JNum(Max0(safeNum(Get(patch, f))))
       [] f = "updatedAt" -> nowIso(t)
       [] OTHER -> existing[f]]

\* normalizeStatsPatch that stamps the row only when the patch sets a
\* field.
normalizeStatsPatchLazyStamp(existing, patch, t) ==
  LET name == cleanName(Get(patch, "name")) IN
  [f \in Fields |->
     CASE f = "name" -> IF name # <<>> THEN JStr(name) ELSE existing[f]
       [] f = "currentMiniGame" ->
            IF Get(patch, f) # Undef
            THEN JStr(ToStr(OrEmpty(Get(patch, f))))
            ELSE existing[f]
       [] f = "currentMiniGameIndex" ->
            IF Get(patch, f) # Undef
            THEN JNum(safeNum(Get(patch, f)))
            ELSE existing[f]
       [] f \in Counters ->
            IF Get(patch, f) # Undef
            THEN JNum(Max0(safeNum(Get(patch, f))))
            ELSE existing[f]
       [] f = "updatedAt" ->
            IF \E g \in Fields \ {"id", "updatedAt"} : Get(patch, g) # Undef
            THEN nowIso(t)
            ELSE existing[f]
       [] OTHER -> existing[f]]

\* normalizeStatsPatch storing the cleaned name even when it is empty.
normalizeStatsPatchAnyName(existing, patch, t) ==
  LET name == cleanName(Get(patch, "name")) IN
  [f \in Fields |->
     CASE f = "name" -> IF Get(patch, f) # Undef THEN JStr(name) ELSE existing[f]
       [] f = "currentMiniGame" ->
            IF Get(patch, f) # Undef
            THEN JStr(ToStr(OrEmpty(Get(patch, f))))
            ELSE existing[f]
       [] f = "currentMiniGameIndex" ->
            IF Get(patch, f) # Undef
            THEN JNum(safeNum(Get(patch, f)))
            ELSE existing[f]
       [] f \in Counters ->
            IF Get(patch, f) # Undef
            THEN JNum(Max0(safeNum(Get(patch, f))))
            ELSE existing[f]
       [] f = "updatedAt" -> nowIso(t)
       [] OTHER -> existing[f]]

\* normalizeStatsPatch storing currentMiniGameIndex as it came.
normalizeStatsPatchRawIndex(existing, patch, t) ==
  LET name == cleanName(Get(patch, "name")) IN
  [f \in Fields |->
     CASE f = "name" -> IF name # <<>> THEN JStr(name) ELSE existing[f]
       [] f = "currentMiniGame" ->
            IF Get(patch, f) # Undef
            THEN JStr(ToStr(OrEmpty(Get(patch, f))))
            ELSE existing[f]
       [] f = "currentMiniGameIndex" ->
            IF Get(patch, f) # Undef THEN Get(patch, f) ELSE existing[f]
       [] f \in Counters ->
            IF Get(patch, f) # Undef
            THEN JNum(Max0(safeNum(Get(patch, f))))
            ELSE existing[f]
       [] f = "updatedAt" -> nowIso(t)
       [] OTHER -> existing[f]]

\* normalizeStatsPatch(existing, patch) at clock reading t
normalizeStatsPatch(existing, patch, t) ==
  LET name == cleanName(Get(patch, "name")) IN
  [f \in Fields |->
     CASE f = "name" -> IF name # <<>> THEN JStr(name) ELSE existing[f]
       [] f = "currentMiniGame" ->
            IF Get(patch, f) # Undef
            THEN JStr(ToStr(OrEmpty(Get(patch, f))))
            ELSE existing[f]
       [] f = "currentMiniGameIndex" ->
            IF Get(patch, f) # Undef
            THEN JNum(safeNum(Get(patch, f)))
            ELSE existing[f]
       [] f \in Counters ->
            IF Get(patch, f) # Undef
            THEN JNum(Max0(safeNum(Get(patch, f))))
            ELSE existing[f]
       [] f = "updatedAt" -> nowIso(t)
       [] OTHER -> existing[f]]

\* The participant object built by the join handler.
NewParticipant(id, name, t) ==
  [f \in Fields |->
     CASE f = "id" -> JStr(id)
       [] f = "name" -> JStr(name)
       [] f = "currentMiniGame" -> EmptyStr
       [] f = "updatedAt" -> nowIso(t)
       [] OTHER -> JNum(0)]

\* ------------------------------------------------------------ the files
\* DATA_FILE: absent, blank, not JSON, the JSON text "null", a JSON
\* object whose participants is not an array, or a snapshot.
FileOf(kind, stamp, list) ==
  [kind |-> kind, updatedAt |-> stamp, participants |-> list]
Missing == FileOf("missing", Undef, <<>>)
Blank == FileOf("blank", Undef, <<>>)
Unparsable == FileOf("unparsable", Undef, <<>>)
JsonNull == FileOf("jsonnull", Undef, <<>>)
NoArray == FileOf("noarray", Undef, <<>>)

\* JSON.stringify followed by JSON.parse, for one value: a non-finite
\* number is written as null.
JsonValue(v) == IF v.k \in {"infinity", "nan"} THEN JNull ELSE v
JsonRow(row) == [f \in Fields |-> JsonValue(row[f])]
JsonRows(list) == [i \in 1..Len(list) |-> JsonRow(list[i])]

\* The leading cells of one table row of buildScoreboardHtml.
TableRow(row) ==
  [name |-> ToStr(row.name),
   completedRounds |-> safeNum(row.completedRounds),
   totalMistakes |-> safeNum(row.totalMistakes)]
buildScoreboardHtml(list) == [i \in 1..Len(list) |-> TableRow(list[i])]

\* How the two writeFileSync calls of persistState can end: both done,
\* the first throws (DATA_FILE keeps its content), the second throws.
WriteOutcomes == {"ok", "data_denied", "table_denied"}
WriteThrows(outcome) == outcome # "ok"

\* persistState writing Object.values() without the sort.
persistDataUnranked(outcome, parts, order, t, old) ==
  CASE outcome \in {"ok", "table_denied"} ->
         FileOf("snapshot", nowIso(t), JsonRows(ObjectValues(parts, order)))
    [] OTHER -> old

\* persistState leaving DATA_FILE alone when the registry is empty.
persistDataSkipEmpty(outcome, parts, order, t, old) ==
  CASE outcome \in {"ok", "table_denied"} /\ Len(order) > 0 ->
         FileOf("snapshot", nowIso(t), JsonRows(participantsList(parts, order)))
    [] OTHER -> old

\* DATA_FILE and TABLE_FILE after persistState() on the registry
\* (parts, order) at clock reading t.
persistData(outcome, parts, order, t, old) ==
  CASE outcome \in {"ok", "table_denied"} ->
         FileOf("snapshot", nowIso(t), JsonRows(participantsList(parts, order)))
    [] OTHER -> old
persistTable(outcome, parts, order, old) ==
  IF outcome = "ok" THEN buildScoreboardHtml(participantsList(parts, order))
  ELSE old

\* loadState stamping every row it loads with the time of the restart.
LoadedRowRestamped(row, id, name, t) ==
  [f \in Fields |->
     CASE f = "id" -> JStr(id)
       [] f = "name" -> JStr(name)
       [] f = "currentMiniGame" -> JStr(ToStr(OrEmpty(Get(row, f))))
       [] f = "updatedAt" -> nowIso(t)
       [] OTHER -> JNum(safeNum(Get(row, f)))]

\* The row loadState stores for a persisted entry, at clock reading t.
LoadedRow(row, id, name, t) ==
  [f \in Fields |->
     CASE f = "id" -> JStr(id)
       [] f = "name" -> JStr(name)
       [] f = "currentMiniGame" -> JStr(ToStr(OrEmpty(Get(row, f))))
       [] f = "updatedAt" ->
            IF Truthy(Get(row, f)) THEN Get(row, f) ELSE nowIso(t)
       [] OTHER -> JNum(safeNum(Get(row, f)))]

\* list.forEach of loadState from entry i on; reg is the registry so far
\* ([parts, order, proto]).  Reading row.id of a null entry throws, which
\* ends the loop: the catch of loadState is outside it.
RECURSIVE LoadRows(_, _, _, _)
LoadRows(list, i, reg, t) ==
  IF i > Len(list) THEN reg
  ELSE IF list[i] = JNull THEN reg
  ELSE LET row == list[i]
           id == Trim(ToStr(OrEmpty(Get(row, "id"))))
           name == cleanName(Get(row, "name"))
           stored == LoadedRow(row, id, name, t)
       IN IF id = <<>> \/ name = <<>> THEN LoadRows(list, i + 1, reg, t)
          ELSE LoadRows(list, i + 1,
                 [parts |-> StoreParts(reg.parts, id, stored),
                  order |-> StoreOrder(reg.parts, reg.order, id),
                  proto |-> StoreProto(reg.proto, id, stored)], t)

\* loadState() on a fresh registry.
loadState(file, t) ==
  LET fresh == [parts |-> EmptyRegistry, order |-> <<>>, proto |-> NoFields]
  IN IF file.kind = "snapshot" THEN LoadRows(file.participants, 1, fresh, t)
     ELSE fresh

\* --------------------------------------------------------------- inputs
\* crypto.randomUUID(): the n-th identifier drawn by this installation,
\* shortened to "u<n>"; no draw repeats an earlier one.
Uuid(n) == <<"u">> \o NatToStr(n)
\* A generator that repeats itself.
createIdRepeating(n) == Uuid(1)
createId(n) == Uuid(n + 1)

\* A raw name longer than the limit whose 28th character is a space.
LongName == [i \in 1..(NameLimit + 1) |->
               IF i = NameLimit THEN " " ELSE IF i > NameLimit THEN "b" ELSE "a"]

\* Values of body.name sent to /group-api/join.
JoinNames ==
  {Undef, JNull, EmptyStr, JStr(<<" ", " ">>), JStr(<<"a">>),
   JStr(<<" ", "b", " ">>), JStr(LongName)}

\* Keys a stats object may carry: the row fields and one unknown key.
PatchKeys == Fields \cup {"extra"}
NoPatch == [f \in PatchKeys |-> Undef]
Patch1(f, v) == [NoPatch EXCEPT ![f] = v]
Patch2(f, v, g, w) == [NoPatch EXCEPT ![f] = v, ![g] = w]

PatchInputs(f) ==
  CASE f = "completedRounds" -> {JNum(3), JNum(0 - 1)}
    [] f = "totalMistakes" -> {JNum(1), JStr(<<"x">>)}
    [] f = "bestRoundMs" -> {JInf}
    [] f \in Counters -> {JNum(2)}
    [] f = "currentMiniGameIndex" -> {JNum(1), JNum(0 - 1), JInf}
    [] f = "currentMiniGame" -> {JStr(<<"a">>), JNull}
    [] f = "name" -> {JStr(<<" ">>), JStr(<<"b">>)}
    [] f = "id" -> {JStr(<<"x">>)}
    [] f = "extra" -> {JNum(1)}
    [] OTHER -> {}

\* The stats objects sent to /group-api/update: empty, single keys, and
\* two pairs.
Patches ==
  {NoPatch}
    \cup {Patch1(fv[1], fv[2]) : fv \in UNION {{f} \X PatchInputs(f) : f \in PatchKeys}}
    \cup {Patch2("completedRounds", JNum(2), "totalMistakes", JNum(5)),
          Patch2("name", JStr(<<" ">>), "totalFound", JNum(2))}

\* Values of body.stats: a stats object, or something that is not one.
StatsInputs == Patches \cup {Undef, JNum(7)}

\* Identifiers left in DATA_FILE by an earlier installation.
OldId1 == <<"u", "7">>
OldId2 == <<"u", "8">>

\* Values of body.id sent to /group-api/update.  No id equals the name of
\* a row field (such a key would be found through an installed prototype).
UpdateIds ==
  {Undef, JStr(<<"x">>), JStr(Uuid(2)), JStr(<<" ", "u", "1">>), JStr(OldId1),
   JStr(ConstructorKey), JStr(ProtoKey)}

\* What readBody gives the handler: a rejection, or the parsed JSON.
BodyOf(raw, name, id, stats) ==
  [raw |-> raw, name |-> name, id |-> id, stats |-> stats]
BadBodies ==
  {BodyOf(r, Undef, Undef, Undef) : r \in {"invalid_json", "payload_too_large", "null"}}
JoinBodies == BadBodies \cup {BodyOf("object", n, Undef, Undef) : n \in JoinNames}
\* Every stats value goes to the first identifier drawn (sent with a
\* leading space), two of them go to every id.
CommonStats == {NoPatch, Patch1("completedRounds", JNum(3))}
UpdateBodies ==
  BadBodies
    \cup {BodyOf("object", Undef, JStr(<<" ", "u", "1">>), st) : st \in StatsInputs}
    \cup {BodyOf("object", Undef, i, st) : i \in UpdateIds, st \in CommonStats}

\* Entries of a persisted participants array: null, a number, a row with
\* no id, a row with a blank name, and two rows that pass validation: one
\* as persistState writes it, one edited by hand (untrimmed id and name, a
\* negative and a non-numeric counter, missing counters, no stamp).
FileRow(id, name, rounds, mistakes, stamp) ==
  [NoFields EXCEPT !["id"] = id, !["name"] = name,
     !["completedRounds"] = rounds, !["totalMistakes"] = mistakes,
     !["updatedAt"] = stamp]
FileStamp == JStr(<<"T", "0">>)
ValidEntries ==
  {[NewParticipant(OldId1, <<"a">>, 0)
      EXCEPT !["completedRounds"] = JNum(2), !["totalMistakes"] = JNum(5)],
   [FileRow(JStr(<<" ">> \o OldId2), JStr(<<" ", "b">>), JNum(2), JNum(0 - 1), Undef)
      EXCEPT !["totalFound"] = JStr(<<"x">>), !["currentMiniGameIndex"] = JNum(0 - 1)]}
InvalidEntries ==
  {JNull, JNum(5),
   FileRow(Undef, JStr(<<"a">>), JNum(1), JNum(0), FileStamp),
   FileRow(JStr(OldId1), JStr(<<" ">>), JNum(1), JNum(0), FileStamp)}
FileEntries == ValidEntries \cup InvalidEntries
EntryLists == {<<>>} \cup [1..1 -> FileEntries] \cup [1..2 -> FileEntries]
InitialFiles ==
  {Missing, Blank, Unparsable, JsonNull, NoArray}
    \cup {FileOf("snapshot", FileStamp, l) : l \in EntryLists}

\* ---------------------------------------------------------------- state
VARIABLES
  pc,            \* "load", "persist" (the two startup calls), "serving", "down"
  participants,  \* state.participants: key -> row
  keyOrder,      \* the own keys of state.participants in property order
  proto,         \* own enumerable fields of the prototype of state.participants
  dataFile,      \* DATA_FILE
  tableFile,     \* TABLE_FILE
  now,           \* the clock: each join or update is handled one reading later
  issued,        \* identifiers drawn so far
  req,           \* the request last handled
  resp,          \* the response last sent
  nreq,          \* join and update requests handled
  lastWrite,     \* how the last event's persistState() ended, "none" if not called
  flights        \* the POST requests this process accepted, in order of arrival

vars ==
  <<pc, participants, keyOrder, proto, dataFile, tableFile, now, issued,
    req, resp, nreq, lastWrite, flights>>

NoBody == BodyOf("none", Undef, Undef, Undef)
RequestOf(op, body) == [op |-> op, body |-> body]
NoReq == RequestOf("none", NoBody)
Response(status, error, id, participant, list, stamp) ==
  [status |-> status, error |-> error, id |-> id,
   participant |-> participant, participants |-> list, updatedAt |-> stamp]
NoResp == Response(0, "", Undef, NoFields, <<>>, Undef)
ErrorResp(status, error) == Response(status, error, Undef, NoFields, <<>>, Undef)

Init ==
  /\ pc = "load"
  /\ participants = EmptyRegistry
  /\ keyOrder = <<>>
  /\ proto = NoFields
  /\ dataFile \in InitialFiles
  /\ tableFile = <<>>
  /\ now = 1
  /\ issued = 0
  /\ req = NoReq
  /\ resp = NoResp
  /\ nreq = 0
  /\ lastWrite = "none"
  /\ flights = <<>>

\* Startup, first call: loadState().
LoadState ==
  /\ pc = "load"
  /\ LET reg == loadState(dataFile, now) IN
       /\ participants' = reg.parts
       /\ keyOrder' = reg.order
       /\ proto' = reg.proto
  /\ pc' = "persist"
  /\ lastWrite' = "none"
  /\ UNCHANGED <<dataFile, tableFile, now, issued, req, resp, nreq, flights>>

\* Startup, second call: persistState(); an exception here is uncaught
\* and ends the process.
StartupPersist ==
  /\ pc = "persist"
  /\ \E outcome \in WriteOutcomes :
       /\ dataFile' = persistData(outcome, participants, keyOrder, now, dataFile)
       /\ tableFile' = persistTable(outcome, participants, keyOrder, tableFile)
       /\ pc' = IF WriteThrows(outcome) THEN "down" ELSE "serving"
       /\ lastWrite' = outcome
  /\ UNCHANGED <<participants, keyOrder, proto, now, issued, req, resp, nreq,
                 flights>>

\* The process ends and is started again: the registry of the new
\* process is the empty object of the module's first statement, and the
\* requests the old process had accepted are gone with it.
Restart ==
  /\ pc \in {"serving", "down"}
  /\ pc' = "load"
  /\ participants' = EmptyRegistry
  /\ keyOrder' = <<>>
  /\ proto' = NoFields
  /\ req' = NoReq
  /\ resp' = NoResp
  /\ lastWrite' = "none"
  /\ flights' = <<>>
  /\ UNCHANGED <<dataFile, tableFile, now, issued, nreq>>

\* A catch that answers 200.
CatchRespOk(message) == ErrorResp(200, message)

\* The catch of the two POST handlers: 400 for invalid_json, else 500.
CatchResp(message) ==
  ErrorResp(IF message = "invalid_json" THEN 400 ELSE 500, message)

\* A scoreboard read that sorts the registry itself: the keys end up in
\* ranked order.
ReadSorting ==
  /\ pc = "serving"
  /\ req' = RequestOf("read", NoBody)
  /\ lastWrite' = "none"
  /\ resp' = Response(200, "", Undef, NoFields,
                      participantsList(participants, keyOrder), nowIso(now))
  /\ keyOrder' = [i \in 1..Len(keyOrder) |->
                    CHOOSE k \in DOMAIN participants :
                      participants[k] = participantsList(participants, keyOrder)[i]]
  /\ UNCHANGED <<pc, participants, proto, dataFile, tableFile, now, issued,
                 nreq, flights>>

\* GET /group-api/scoreboard
Read ==
  /\ pc = "serving"
  /\ req' = RequestOf("read", NoBody)
  /\ lastWrite' = "none"
  /\ resp' = Response(200, "", Undef, NoFields,
                      participantsList(participants, keyOrder), nowIso(now))
  /\ UNCHANGED <<pc, participants, keyOrder, proto, dataFile, tableFile, now,
                 issued, nreq, flights>>

\* The join handler leaves the registry and the files alone.
NoEffect ==
  /\ lastWrite' = "none"
  /\ UNCHANGED <<participants, keyOrder, proto, dataFile, tableFile, issued>>

\* POST /group-api/join, from the moment readBody settles; the request is
\* handled one clock reading after the previous event.
Join(body, outcome) ==
  /\ pc = "serving"
  /\ nreq < MaxRequests
  /\ nreq' = nreq + 1
  /\ now' = now + 1
  /\ req' = RequestOf("join", body)
  /\ UNCHANGED pc
  /\ IF body.raw \in {"invalid_json", "payload_too_large"}
     THEN /\ resp' = CatchResp(body.raw)
          /\ NoEffect
     ELSE IF body.raw = "null"
     THEN /\ resp' = CatchResp("type_error")
          /\ NoEffect
     ELSE LET name == cleanName(body.name) IN
          IF name = <<>>
          THEN /\ resp' = ErrorResp(400, "name_required")
               /\ NoEffect
          ELSE LET id == createId(issued)
                   participant == NewParticipant(id, name, now')
                   parts == StoreParts(participants, id, participant)
                   order == StoreOrder(participants, keyOrder, id)
               IN /\ issued' = issued + 1
                  /\ lastWrite' = outcome
                  /\ participants' = parts
                  /\ keyOrder' = order
                  /\ proto' = StoreProto(proto, id, participant)
                  /\ dataFile' = persistData(outcome, parts, order, now', dataFile)
                  /\ tableFile' = persistTable(outcome, parts, order, tableFile)
                  /\ resp' = IF WriteThrows(outcome)
                             THEN CatchResp("write_failed")
                             ELSE Response(200, "", JStr(id), participant,
                                           participantsList(parts, order), Undef)

\* body.stats when it is an object, else {}.
StatsOf(body) == IF IsRecord(body.stats) THEN body.stats ELSE NoPatch

\* String(body.id || '').trim()
requestId(body) == Trim(ToStr(OrEmpty(body.id)))

\* The update handler leaves the registry and the files alone.
Rejected ==
  /\ lastWrite' = "none"
  /\ UNCHANGED <<participants, keyOrder, proto, dataFile, tableFile>>

\* POST /group-api/update, from the moment readBody settles; view is the
\* registry object the lookup reads.
UpdateFrom(body, outcome, view) ==
  /\ pc = "serving"
  /\ nreq < MaxRequests
  /\ nreq' = nreq + 1
  /\ now' = now + 1
  /\ req' = RequestOf("update", body)
  /\ UNCHANGED <<pc, issued>>
  /\ IF body.raw \in {"invalid_json", "payload_too_large"}
     THEN /\ resp' = CatchResp(body.raw)
          /\ Rejected
     ELSE IF body.raw = "null"
     THEN /\ resp' = CatchResp("type_error")
          /\ Rejected
     ELSE LET id == requestId(body)
              existing == Lookup(view, proto, id)
          IN IF id = <<>> \/ existing = Undef
             THEN /\ resp' = ErrorResp(404, "participant_not_found")
                  /\ Rejected
             ELSE LET next == normalizeStatsPatch(existing, StatsOf(body), now')
                      parts == StoreParts(participants, id, next)
                      order == StoreOrder(participants, keyOrder, id)
                      pr == StoreProto(proto, id, next)
                  IN /\ lastWrite' = outcome
                     /\ participants' = parts
                     /\ keyOrder' = order
                     /\ proto' = pr
                     /\ dataFile' = persistData(outcome, parts, order, now', dataFile)
                     /\ tableFile' = persistTable(outcome, parts, order, tableFile)
                     /\ resp' = IF WriteThrows(outcome)
                                THEN CatchResp("write_failed")
                                ELSE Response(200, "", Undef,
                                              Lookup(parts, pr, id),
                                              participantsList(parts, order), Undef)

\* The handler reads state.participants after the await of readBody: it
\* sees the registry as it is when the body is complete.
Update(body, outcome) == UpdateFrom(body, outcome, participants)

\* A request whose body arrives in one piece: accepted and handled with
\* no other event in between.
JoinRequest ==
  /\ \E body \in JoinBodies, outcome \in WriteOutcomes : Join(body, outcome)
  /\ UNCHANGED flights
UpdateRequest ==
  /\ \E body \in UpdateBodies, outcome \in WriteOutcomes : Update(body, outcome)
  /\ UNCHANGED flights

Next ==
  \/ LoadState
  \/ StartupPersist
  \/ Restart
  \/ Read
  \/ JoinRequest
  \/ UpdateRequest

Spec == Init /\ [][Next]_vars

\* A second specification: the installation starts without DATA_FILE, so
\* every snapshot it ever reads was written by persistState.
FreshInit == Init /\ dataFile = Missing
FreshSpec == FreshInit /\ [][Next]_vars

\* ----------------------------------------------- requests in flight
\* A third specification: a POST request is accepted (the handler runs up
\* to the await of readBody, reading nothing of the registry), its body
\* arrives while other requests are accepted and handled, and when the
\* body is complete the rest of the handler runs without a break: it has
\* no other await, and persistState writes synchronously.
\* A flight records the operation, how many requests had been handled when
\* it was accepted (since), the count of handled requests when it was
\* handled (settled, 0 while in flight), and the registry as it was when
\* the request was accepted (seen), which the handler never reads.
Flight(op, since, seen) ==
  [op |-> op, since |-> since, settled |-> 0, seen |-> seen]
InFlight == {n \in 1..Len(flights) : flights[n].settled = 0}

\* Bodies completed in this specification.
ConcJoinBodies ==
  {BodyOf("invalid_json", Undef, Undef, Undef),
   BodyOf("object", JStr(<<"a">>), Undef, Undef),
   BodyOf("object", EmptyStr, Undef, Undef)}
ConcUpdateBodies ==
  {BodyOf("object", Undef, i, st) :
     i \in {JStr(OldId1), JStr(Uuid(1)), JStr(<<"x">>)},
     st \in {NoPatch, Patch1("completedRounds", JNum(3)),
             Patch1("totalMistakes", JNum(1))}}
ConcFiles ==
  {Missing} \cup {FileOf("snapshot", FileStamp, <<e>>) : e \in ValidEntries}

\* The server accepts a request: the 'request' event, up to the await.
AcceptRequest(op) ==
  /\ pc = "serving"
  /\ nreq + Cardinality(InFlight) < MaxRequests
  /\ flights' = Append(flights, Flight(op, nreq, participants))
  /\ UNCHANGED <<pc, participants, keyOrder, proto, dataFile, tableFile, now,
                 issued, req, resp, nreq, lastWrite>>

\* A handler that keeps the registry it saw when its request arrived.
HandlerViewAtAccept(n) == flights[n].seen

\* The registry the handler of flight n looks the id up in: the one of the
\* moment its body is complete.
HandlerView(n) == participants

\* The body of flight n is complete: the 'end' event and the rest of the
\* handler.
SettleRequest(n) ==
  /\ n \in InFlight
  /\ flights' = [flights EXCEPT ![n].settled = nreq + 1]
  /\ IF flights[n].op = "join"
     THEN \E body \in ConcJoinBodies, outcome \in WriteOutcomes :
            Join(body, outcome)
     ELSE \E body \in ConcUpdateBodies, outcome \in WriteOutcomes :
            UpdateFrom(body, outcome, HandlerView(n))

Accept == \E op \in {"join", "update"} : AcceptRequest(op)
Settle == \E n \in 1..Len(flights) : SettleRequest(n)

ConcNext ==
  \/ LoadState
  \/ StartupPersist
  \/ Restart
  \/ Read
  \/ Accept
  \/ Settle

ConcInit == Init /\ dataFile \in ConcFiles
ConcSpec == ConcInit /\ [][ConcNext]_vars

\* ================================================================ claims
\* The step is the handling of a join / an update request whose body
\* readBody parsed to an object.
JoinHandled ==
  nreq' = nreq + 1 /\ req'.op = "join" /\ req'.body.raw = "object"
UpdateHandled ==
  nreq' = nreq + 1 /\ req'.op = "update" /\ req'.body.raw = "object"

\* The fields a stats patch can set.
PatchableFields == Counters \cup {"name", "currentMiniGame", "currentMiniGameIndex"}

\* A raw name that is missing, empty or white space only.
IsBlankName(v) ==
  \/ v \in {Undef, JNull}
  \/ v.k = "string" /\ \A i \in 1..Len(v.s) : v.s[i] \in WhiteSpace

\* C1: an update of a registered participant changes, among name, the six
\* counters, currentMiniGame and currentMiniGameIndex, only fields present
\* in the patch; it adds or removes no key and leaves every other
\* participant's row as it was; with both writes done it answers 200.
C1_UpdateFrame ==
  [][(UpdateHandled /\ requestId(req'.body) \in DOMAIN participants) =>
       LET id == requestId(req'.body)
           patch == StatsOf(req'.body)
       IN /\ DOMAIN participants' = DOMAIN participants
          /\ \A f \in PatchableFields :
               patch[f] = Undef => participants'[id][f] = participants[id][f]
          /\ \A k \in DOMAIN participants \ {id} : participants'[k] = participants[k]
          /\ (lastWrite' = "ok" => resp'.status = 200)]_vars

\* C1 witness: Scenario B, a row with completedRounds 2 and totalMistakes
\* 5 patched with {completedRounds: 3}.
C1_Witness ==
  /\ req.op = "update"
  /\ resp.status = 200
  /\ requestId(req.body) = OldId1
  /\ StatsOf(req.body) = Patch1("completedRounds", JNum(3))
  /\ participants[OldId1].completedRounds = JNum(3)
  /\ participants[OldId1].totalMistakes = JNum(5)
  /\ participants[OldId1].updatedAt # FileStamp

\* C2 (as claimed): an update whose id is not a key of the registry is
\* answered 404 participant_not_found, changes nothing in the registry and
\* calls no persistState.
C2_UnknownIdRejected ==
  [][(UpdateHandled /\ requestId(req'.body) \notin DOMAIN participants) =>
       /\ resp'.status = 404
       /\ resp'.error = "participant_not_found"
       /\ participants' = participants
       /\ keyOrder' = keyOrder
       /\ lastWrite' = "none"
       /\ dataFile' = dataFile]_vars

\* C3: a join with a valid name adds exactly one row, under a key that
\* was not a key before, is the id of no existing row and was never drawn
\* before; every existing row is unchanged.
C3_JoinAddsFreshRecord ==
  [][(JoinHandled /\ ~IsBlankName(req'.body.name)) =>
       \E id \in DOMAIN participants' \ DOMAIN participants :
         /\ DOMAIN participants' = DOMAIN participants \cup {id}
         /\ Cardinality(DOMAIN participants') = Cardinality(DOMAIN participants) + 1
         /\ \A k \in DOMAIN participants :
              participants'[k] = participants[k] /\ participants[k].id # JStr(id)
         /\ id \notin {Uuid(n) : n \in 1..issued}
         /\ participants'[id].id = JStr(id)
         /\ (lastWrite' = "ok" => resp'.status = 200 /\ resp'.id = JStr(id))]_vars

\* C3 witness: Scenario A, two joins with the same name.
C3_Witness ==
  /\ req.op = "join"
  /\ resp.status = 200
  /\ DOMAIN participants = {Uuid(1), Uuid(2)}
  /\ participants[Uuid(1)].name = JStr(<<"a">>)
  /\ participants[Uuid(2)].name = JStr(<<"a">>)

\* C4: a join whose name is missing, empty or white space only is
\* answered 400 name_required, changes nothing in the registry and calls no
\* persistState.
C4_BlankNameRejected ==
  [][(JoinHandled /\ IsBlankName(req'.body.name)) =>
       /\ resp'.status = 400
       /\ resp'.error = "name_required"
       /\ participants' = participants
       /\ keyOrder' = keyOrder
       /\ proto' = proto
       /\ dataFile' = dataFile
       /\ tableFile' = tableFile
       /\ lastWrite' = "none"]_vars

\* C4 witness: Scenario D on a registry that has rows.
C4_Witness ==
  /\ req.op = "join"
  /\ req.body.name = JStr(<<" ", " ">>)
  /\ resp.error = "name_required"
  /\ DOMAIN participants # {}

\* C5: right after startup, and right after a join or update answered
\* 200, DATA_FILE is a snapshot whose participants are exactly
\* participantsList() of the registry, in that order.
C5_DurableMirrorsRegistry ==
  (/\ pc = "serving"
   /\ \/ req.op = "none"
      \/ req.op \in {"join", "update"} /\ resp.status = 200)
    => /\ dataFile.kind = "snapshot"
       /\ dataFile.participants = participantsList(participants, keyOrder)

\* C5 witness: after an update, a file of two rows whose first row is not
\* the first key of the registry.
C5_Witness ==
  /\ pc = "serving"
  /\ req.op = "update"
  /\ resp.status = 200
  /\ Len(dataFile.participants) = 2
  /\ dataFile.participants[1].id # JStr(keyOrder[1])

\* C6 (as claimed, for snapshots all of whose rows carry an id): when the
\* process reloads a snapshot that persistState wrote, participantsList()
\* of the recovered registry is the persisted list.
C6_RoundTrip ==
  [][(/\ pc = "load"
      /\ pc' = "persist"
      /\ dataFile.kind = "snapshot"
      /\ \A i \in 1..Len(dataFile.participants) :
           dataFile.participants[i].id # Undef)
       => participantsList(participants', keyOrder') = dataFile.participants]_vars

\* The key loadState derives for a persisted entry, and the validity the
\* recovery contract names: an object with a non-empty id and a name that
\* survives cleaning.
EntryKey(e) == Trim(ToStr(OrEmpty(Get(e, "id"))))
IsValidEntry(e) ==
  IsRecord(e) /\ EntryKey(e) # <<>> /\ cleanName(Get(e, "name")) # <<>>

\* C7 (as claimed): after loadState on a snapshot, the keys of the
\* registry are exactly the keys of the valid entries of the file.
C7_ValidEntriesLoaded ==
  (pc = "persist" /\ dataFile.kind = "snapshot")
    => DOMAIN participants =
         {EntryKey(dataFile.participants[i]) :
            i \in {j \in 1..Len(dataFile.participants) :
                     IsValidEntry(dataFile.participants[j])}}

\* C8: when persistState throws in a join or update, the answer is a 500
\* carrying the error; the registry keeps the new row (join) or the
\* patched row, stamped with the time of the request (update); and if it
\* was the write of DATA_FILE that threw, DATA_FILE is what it was.
C8_WriteFailureSurfaced ==
  [][(nreq' = nreq + 1 /\ lastWrite' \in {"data_denied", "table_denied"}) =>
       /\ resp'.status = 500
       /\ resp'.error # ""
       /\ req'.op = "join" =>
            \E id \in DOMAIN participants' \ DOMAIN participants :
              /\ participants'[id].name = JStr(cleanName(req'.body.name))
              /\ participants'[id].updatedAt = nowIso(now')
       /\ req'.op = "update" =>
            Lookup(participants', proto', requestId(req'.body)).updatedAt = nowIso(now')
       /\ lastWrite' = "data_denied" => dataFile' = dataFile]_vars

\* C8 witness: an update of a registered participant whose DATA_FILE
\* write threw: 500, and the file no longer lists what the registry holds.
C8_Witness ==
  /\ req.op = "update"
  /\ lastWrite = "data_denied"
  /\ resp.status = 500
  /\ requestId(req.body) \in DOMAIN participants
  /\ dataFile.kind = "snapshot"
  /\ dataFile.participants # participantsList(participants, keyOrder)

\* The ranking keys of a row: a number that is missing counts as 0, a
\* name that is missing as the empty string.
KeyNum(v) == IF v.k = "number" THEN v.n ELSE 0
NameKey(row) == ToStr(OrEmpty(row.name))
RanksNotAfter(a, b) ==
  /\ KeyNum(a.completedRounds) >= KeyNum(b.completedRounds)
  /\ KeyNum(a.completedRounds) = KeyNum(b.completedRounds) =>
       /\ KeyNum(a.totalMistakes) <= KeyNum(b.totalMistakes)
       /\ KeyNum(a.totalMistakes) = KeyNum(b.totalMistakes) =>
            localeCompare(NameKey(a), NameKey(b)) <= 0
Count(seq, x) == Cardinality({i \in 1..Len(seq) : seq[i] = x})

\* C9: the list answered by read, join and update is a permutation of the
\* rows of the registry in which no row ranks after a later one: more
\* rounds first, then fewer mistakes, then the name in collation order.
C9_RankedOrder ==
  (req.op \in {"read", "join", "update"} /\ resp.status = 200) =>
    LET list == resp.participants
        rows == ObjectValues(participants, keyOrder)
    IN /\ Len(list) = Len(rows)
       /\ \A i \in 1..Len(rows) : Count(list, rows[i]) = Count(rows, rows[i])
       /\ \A i, j \in 1..Len(list) : i < j => RanksNotAfter(list[i], list[j])

\* C9 witness: Scenario C, two rows with equal rounds, the one with fewer
\* mistakes listed first although it entered the registry last.
C9_Witness ==
  /\ req.op = "read"
  /\ Len(resp.participants) = 2
  /\ KeyNum(resp.participants[1].completedRounds)
       = KeyNum(resp.participants[2].completedRounds)
  /\ KeyNum(resp.participants[1].totalMistakes)
       < KeyNum(resp.participants[2].totalMistakes)
  /\ resp.participants[1].id = JStr(keyOrder[2])

SameKeys(a, b) ==
  /\ KeyNum(a.completedRounds) = KeyNum(b.completedRounds)
  /\ KeyNum(a.totalMistakes) = KeyNum(b.totalMistakes)
  /\ NameKey(a) = NameKey(b)
Index(seq, x) == CHOOSE i \in 1..Len(seq) : seq[i] = x

C11_CountersNonNegative ==
  \A k \in DOMAIN participants : \A f \in Counters :
    participants[k][f].k = "number" /\ participants[k][f].n >= 0

\* C12: an update answered 200 leaves the addressed row stamped with the
\* time of that update, whatever the patch holds, and leaves every other
\* row's stamp alone; an update answered 404 changes no row.
C12_UpdateStamps ==
  [][UpdateHandled =>
       LET id == requestId(req'.body) IN
       /\ (resp'.status = 200 /\ id \in DOMAIN participants) =>
            /\ participants'[id].updatedAt = nowIso(now')
            /\ \A k \in DOMAIN participants \ {id} :
                 participants'[k].updatedAt = participants[k].updatedAt
       /\ resp'.status = 404 =>
            /\ DOMAIN participants' = DOMAIN participants
            /\ \A k \in DOMAIN participants :
                 participants'[k].updatedAt = participants[k].updatedAt]_vars

\* C12 witness: a patch with only an unknown key, answered 200: the row
\* carries the time of the update and nothing else of it changed.
C12_Witness ==
  /\ req.op = "update"
  /\ resp.status = 200
  /\ StatsOf(req.body) = Patch1("extra", JNum(1))
  /\ requestId(req.body) \in DOMAIN participants
  /\ participants[requestId(req.body)].updatedAt = nowIso(now)
  /\ participants[requestId(req.body)].completedRounds = JNum(0)

\* C13 (as claimed): every row of the registry after loadState is, field
\* by field, an entry of the snapshot it was loaded from.
C13_LoadedAsIs ==
  (pc = "persist" /\ dataFile.kind = "snapshot") =>
    \A k \in DOMAIN participants :
      \E i \in 1..Len(dataFile.participants) :
        LET e == dataFile.participants[i] IN
        IsRecord(e) /\ \A f \in Fields : participants[k][f] = e[f]

\* C13 (amended): every row of the registry after loadState comes from a
\* valid entry of the snapshot, normalised: the id trimmed, the name
\* cleaned, the counters and currentMiniGameIndex made finite numbers (a
\* number is kept, a missing or non-numeric value is 0), currentMiniGame
\* made a string, updatedAt kept when the entry has one and set to the
\* time of the restart when it has none.
C13_LoadedNormalised ==
  (pc = "persist" /\ dataFile.kind = "snapshot") =>
    \A k \in DOMAIN participants :
      \E i \in 1..Len(dataFile.participants) :
        LET e == dataFile.participants[i]
            row == participants[k]
        IN /\ IsValidEntry(e)
           /\ EntryKey(e) = k
           /\ row.id = JStr(k)
           /\ row.name = JStr(cleanName(e.name))
           /\ \A f \in Counters \cup {"currentMiniGameIndex"} :
                /\ row[f] = JNum(safeNum(e[f]))
                /\ e[f].k = "number" => row[f] = e[f]
           /\ row.currentMiniGame = JStr(ToStr(OrEmpty(e.currentMiniGame)))
           /\ row.updatedAt = IF Truthy(e.updatedAt) THEN e.updatedAt ELSE nowIso(now)

\* C13 witness: a snapshot of two valid entries is loaded; the one in
\* normal form is in the registry unchanged, with its old stamp, the one
\* without a stamp carries the time of the restart.
C13_Witness ==
  /\ pc = "persist"
  /\ dataFile.kind = "snapshot"
  /\ DOMAIN participants = {OldId1, OldId2}
  /\ \E i \in 1..Len(dataFile.participants) :
       participants[OldId1] = dataFile.participants[i]
  /\ participants[OldId1].updatedAt = FileStamp
  /\ FileStamp # nowIso(now)
  /\ participants[OldId2].updatedAt = nowIso(now)

\* Flights a and b were in flight at the same time: each was accepted
\* before the other was handled.
Overlapped(a, b) ==
  /\ flights[a].settled # 0
  /\ flights[b].settled # 0
  /\ flights[a].since < flights[b].settled
  /\ flights[b].since < flights[a].settled

\* C14: whatever else is in flight, the handling of a request acts on the
\* registry as the request handled before it left it, so the registry is
\* always the result of the handled requests applied one after another in
\* the order their bodies completed: an update keeps every field its
\* patch does not carry, as the previous request left it, sets the
\* counters its patch carries, and touches no other row; a join adds one
\* row and touches no other; and the snapshot written by a request
\* answered 200 is the ranked list of the whole registry, every row
\* committed before it included.
C14_SerialCommit ==
  [][\A n \in 1..Len(flights) :
       (Len(flights') = Len(flights) /\ flights[n].settled = 0
          /\ flights'[n].settled # 0) =>
         LET id == requestId(req'.body)
             patch == StatsOf(req'.body)
         IN /\ req'.op = flights[n].op
            /\ \A k \in DOMAIN participants : k \in DOMAIN participants'
            /\ (UpdateHandled /\ id \in DOMAIN participants) =>
                 /\ DOMAIN participants' = DOMAIN participants
                 /\ \A f \in PatchableFields :
                      patch[f] = Undef => participants'[id][f] = participants[id][f]
                 /\ \A f \in Counters :
                      patch[f] # Undef =>
                        participants'[id][f] = JNum(Max0(safeNum(patch[f])))
                 /\ \A k \in DOMAIN participants \ {id} :
                      participants'[k] = participants[k]
            /\ req'.op = "join" =>
                 /\ \A k \in DOMAIN participants : participants'[k] = participants[k]
                 /\ Cardinality(DOMAIN participants') <= Cardinality(DOMAIN participants) + 1
            /\ resp'.status = 200 =>
                 /\ dataFile'.participants = participantsList(participants', keyOrder')
                 /\ \A k \in DOMAIN participants :
                      \E i \in 1..Len(dataFile'.participants) :
                        dataFile'.participants[i].id = JStr(k)]_vars

\* C14 witness: two updates of the same participant were in flight at the
\* same time, one setting completedRounds and one totalMistakes; the row
\* holds both values, and the request handled last had been accepted when
\* the row held neither.
C14_Witness ==
  /\ Len(flights) = 2
  /\ flights[1].op = "update"
  /\ flights[2].op = "update"
  /\ Overlapped(1, 2)
  /\ resp.status = 200
  /\ OldId1 \in DOMAIN participants
  /\ participants[OldId1].completedRounds = JNum(3)
  /\ participants[OldId1].totalMistakes = JNum(1)
  /\ flights[1].seen[OldId1].completedRounds = JNum(2)
  /\ flights[2].seen[OldId1].totalMistakes = JNum(5)
  /\ dataFile.participants = <<participants[OldId1]>>

\* DATA_FILE is absent, holds nothing but white space, or is not JSON.
NoRecord == dataFile.kind \in {"missing", "blank", "unparsable"}

\* C15: with DATA_FILE absent, blank or not JSON, loadState ends with an
\* empty registry and startup goes on to persistState (it does not end
\* the process and does not touch the file); persistState then, unless a
\* write throws, leaves DATA_FILE a snapshot with an empty participants
\* list stamped with the current time, and the server serves.
C15_StartupWithoutRecord ==
  [][/\ (pc = "load" /\ NoRecord) =>
          /\ pc' = "persist"
          /\ participants' = EmptyRegistry
          /\ keyOrder' = <<>>
          /\ dataFile' = dataFile
     /\ (pc = "persist" /\ NoRecord) =>
          /\ participants = EmptyRegistry
          /\ lastWrite' \in WriteOutcomes
          /\ lastWrite' \in {"ok", "table_denied"} =>
               dataFile' = FileOf("snapshot", nowIso(now), <<>>)
          /\ lastWrite' = "ok" => pc' = "serving" /\ Len(tableFile') = 0]_vars

\* C15 witness: loadState has run on a file that is not JSON; the registry
\* is empty and persistState is next.
C15_Witness ==
  /\ pc = "persist"
  /\ dataFile.kind = "unparsable"
  /\ participants = EmptyRegistry
  /\ keyOrder = <<>>

\* C16 (as claimed): the row stored under key k of the registry has id k.
C16_KeyIsId ==
  \A k \in DOMAIN participants : participants[k].id = JStr(k)

\* C17 (as claimed, for the rows that have a name): the name of a row of
\* the registry is not empty, is at most 28 characters long, neither
\* starts nor ends with white space, and is left as it is by cleanName.
C17_NamesClean ==
  \A k \in DOMAIN participants :
    LET name == participants[k].name IN
    name.k = "string" =>
      /\ Len(name.s) \in 1..NameLimit
      /\ name.s[1] \notin WhiteSpace
      /\ name.s[Len(name.s)] \notin WhiteSpace
      /\ cleanName(name) = name.s

\* C18: a scoreboard read is answered 200 with a list that holds each row
\* of the registry once, best rank first, rows whose write to the files
\* failed included; it leaves the registry (rows, keys and their order),
\* DATA_FILE and TABLE_FILE as they were.
C18_ReadFrame ==
  [][(req'.op = "read" /\ nreq' = nreq /\ pc = "serving") =>
       LET list == resp'.participants IN
       /\ resp'.status = 200
       /\ Len(list) = Cardinality(DOMAIN participants)
       /\ {list[i] : i \in 1..Len(list)} = {participants[k] : k \in DOMAIN participants}
       /\ \A i, j \in 1..Len(list) : i < j => RanksNotAfter(list[i], list[j])
       /\ participants' = participants
       /\ keyOrder' = keyOrder
       /\ proto' = proto
       /\ dataFile' = dataFile
       /\ tableFile' = tableFile]_vars

\* C18 witness: a read of two rows lists first the row with more rounds,
\* which is the second key of the registry, and the registry holds a row
\* DATA_FILE does not (its write failed).
C18_Witness ==
  /\ req.op = "read"
  /\ resp.status = 200
  /\ Len(resp.participants) = 2
  /\ resp.participants[1] = participants[keyOrder[2]]
  /\ KeyNum(resp.participants[1].completedRounds)
       > KeyNum(resp.participants[2].completedRounds)
  /\ dataFile.participants # resp.participants

\* C19: an update of a registered participant whose patch carries a name
\* that is empty or white space only is not refused: the row keeps its
\* name, takes the counters the patch carries, is stamped with the time of
\* the update, persistState is called, and with both writes done the
\* answer is 200 and DATA_FILE lists the patched row.
C19_BlankNamePatch ==
  [][(/\ UpdateHandled
      /\ requestId(req'.body) \in DOMAIN participants
      /\ StatsOf(req'.body).name # Undef
      /\ IsBlankName(StatsOf(req'.body).name)) =>
       LET id == requestId(req'.body)
           patch == StatsOf(req'.body)
       IN /\ participants'[id].name = participants[id].name
          /\ \A f \in Counters :
               patch[f] # Undef =>
                 participants'[id][f] = JNum(Max0(safeNum(patch[f])))
          /\ participants'[id].updatedAt = nowIso(now')
          /\ lastWrite' \in WriteOutcomes
          /\ resp'.status # 404
          /\ lastWrite' = "ok" =>
               /\ resp'.status = 200
               /\ resp'.participant = participants'[id]
               /\ \E i \in 1..Len(dataFile'.participants) :
                    dataFile'.participants[i] = participants'[id]]_vars

\* C19 witness: the patch {name: " ", totalFound: 2} was answered 200; the
\* row still has the name it joined with, and totalFound 2.
C19_Witness ==
  /\ req.op = "update"
  /\ resp.status = 200
  /\ StatsOf(req.body) = Patch2("name", JStr(<<" ">>), "totalFound", JNum(2))
  /\ requestId(req.body) \in DOMAIN participants
  /\ participants[requestId(req.body)].name.k = "string"
  /\ Len(participants[requestId(req.body)].name.s) > 0
  /\ participants[requestId(req.body)].totalFound = JNum(2)
  /\ participants[requestId(req.body)].updatedAt = nowIso(now)

\* C20 (as claimed): currentMiniGameIndex of every row of the registry
\* that has one is a finite number that is at least 0.
C20_IndexNonNegative ==
  \A k \in DOMAIN participants :
    LET v == participants[k].currentMiniGameIndex IN
    v # Undef => v.k = "number" /\ v.n >= 0

\* C20 (amended): currentMiniGameIndex of every row of the registry that
\* has one is a finite number, of either sign: 0 at join, and after an
\* update that carries the field the number the patch gave, or 0 when
\* that was not finite.
C20_IndexFinite ==
  /\ \A k \in DOMAIN participants :
       LET v == participants[k].currentMiniGameIndex IN
       v # Undef => v.k = "number"
  /\ (/\ req.op = "update"
      /\ resp.status = 200
      /\ requestId(req.body) \in DOMAIN participants
      /\ StatsOf(req.body).currentMiniGameIndex # Undef) =>
       LET v == StatsOf(req.body).currentMiniGameIndex
           stored == participants[requestId(req.body)].currentMiniGameIndex
       IN IF v.k = "number" THEN stored = v ELSE stored = JNum(0)

\* C20 witness: the patch {currentMiniGameIndex: -1} was answered 200 and
\* the row holds -1.
C20_Witness ==
  /\ req.op = "update"
  /\ resp.status = 200
  /\ StatsOf(req.body) = Patch1("currentMiniGameIndex", JNum(0 - 1))
  /\ requestId(req.body) \in DOMAIN participants
  /\ participants[requestId(req.body)].currentMiniGameIndex = JNum(0 - 1)

====
